---------------------------- MODULE Spec2Model ----------------------------
(***************************************************************************)
(* NDCell: the chunked Grid store (src/src/automaton/space/grid.rs) and    *)
(* the automaton facade (src/core/src/lib.rs): NdAutomaton, its shared     *)
(* Simulation behind Arc<Mutex<..>>, and NdProjectedAutomaton.             *)
(*                                                                         *)
(* Both stores are modelled in their one-dimensional instance: a cell      *)
(* position is an integer.  NdTree, Simulation and NdProjection are not    *)
(* among the source files; they are modelled from the specification text   *)
(* (sections 4.3, 4.5, 4.7) and are marked as such where they are defined. *)
(***************************************************************************)
EXTENDS Integers, FiniteSets, Sequences, TLC

(***************************************************************************)
(* Bounds of the model.                                                    *)
(***************************************************************************)
\* Side length of a Grid chunk (the program uses chunks of ~4k cells).
ChunkSize == 2
\* Largest cell state written by the environment (a cell is a u8).
MaxState == 1
\* Tree positions the environment writes and reads: -MaxPos..MaxPos.
MaxPos == 1
\* The live cells of a tree stay within -MaxExtent..MaxExtent.
MaxExtent == 1
\* Largest step size the environment asks for.
MaxStep == 3
\* The generation counter stays within -1..MaxGen.
MaxGen == 3

\* Longest vector the interpreter is given, and longest it is asked for.
MaxVecLen == 3
\* The integers the interpreter is given: -1..MaxLangInt.
MaxLangInt == 1

\* A float is modelled as an integer count of 2^-FracBits, kept to MantBits
\* significant bits by rounding to nearest, ties to even (an f32 keeps 24).
FracBits == 4
MantBits == 3
\* Largest scroll distance, in units of 2^-FracBits.
MaxDelta == 1
\* The viewport's cell position stays within -MaxView..MaxView on each axis.
MaxView == 1
\* Texture widths and heights are 1..MaxSize.
MaxSize == 3
\* The display creates at most MaxTextures textures.
MaxTextures == 4

\* Cell states the environment writes.
States == 0..MaxState
\* Grid positions the environment touches: the chunks -1 and 0.
GridCoords == (0 - ChunkSize)..(ChunkSize - 1)
\* Chunk coordinates the environment names.
GridChunks == {-1, 0}

VARIABLES
    chunks,     \* Grid.chunks : HashMap<ChunkCoords, ArcArray<T>>
    autos,      \* the NdProjectedAutomaton values, by identity
    sims,       \* the Simulation objects behind Arc<Mutex<..>>, by identity
    lastOp,     \* the most recent call and what it returned
    value,      \* the ConstValue the rule interpreter holds
    viewport,   \* the Viewport2D of the grid view
    texture,    \* a CachedSrgbTexture2d of the texture cache
    display,    \* the number of textures DISPLAY has created
    projected,  \* an NdProjectedAutomaton of more storage axes than view axes
    arena,      \* the node arena: its nodes and the id of the next one
    roots,      \* two trees over the arena, each with the id of its root node
    interning,  \* the intern call each thread is in
    stepping,   \* where the thread that steps each automaton is in step
    held        \* for each Simulation's mutex, the automaton whose step holds it

\* The state outside the Grid and the automata.
\* The state of the node arena and of what works on it.
nodeVars == <<arena, roots, interning>>

\* The threads that step the automata, and the locks they hold.
threadVars == <<stepping, held>>

otherVars == <<value, viewport, texture, display, projected, nodeVars, threadVars>>

vars == <<chunks, autos, sims, lastOp, otherVars>>

\* The record of a call: the operation, the object it was called on, the
\* position and value (or step size) it was given, whether the caller asked
\* for cancellation while it ran, what it returned, what the step engine
\* reported to it, and how it ended ("returned" or "panic"); for set_sim,
\* the rule of the new Simulation.
Op(name, who, pos, val, cancel, ret, engine, outcome) ==
    [op |-> name, who |-> who, pos |-> pos, val |-> val, cancel |-> cancel,
     ret |-> ret, engine |-> engine, outcome |-> outcome, rule |-> "none"]

NoOp == Op("none", 0, 0, 0, FALSE, 0, "none", "none")

(***************************************************************************)
(* Grid<T, C>, instance T = u8, C = [isize; 1].                            *)
(***************************************************************************)
\* T::default()
DefaultCell == 0

\* Grid.default_chunk: a chunk of default cells.
default_chunk == [i \in 0..(ChunkSize - 1) |-> DefaultCell]

\* ChunkCoords::from(CellCoords): the chunk that holds the cell.
ChunkCoordsOf(cell_coords) == cell_coords \div ChunkSize

\* LocalCoords::from(CellCoords): the index of the cell inside its chunk.
LocalCoordsOf(cell_coords) == cell_coords % ChunkSize

\* Grid::new
Grid_new == <<>>

\* Grid::has_chunk
has_chunk(g, chunk_index) == chunk_index \in DOMAIN g

\* Grid::is_chunk_empty: true if the chunk does not exist.
is_chunk_empty(g, chunk_index) ==
    IF ~has_chunk(g, chunk_index)
    THEN TRUE
    ELSE \A i \in DOMAIN g[chunk_index] : g[chunk_index][i] = DefaultCell

\* is_empty as "there are no chunks": a chunk of default cells counts.
is_empty_NoChunks(g) == DOMAIN g = {}

\* Grid::is_empty
is_empty(g) == \A chunk_coords \in DOMAIN g : is_chunk_empty(g, chunk_coords)

\* Grid::get_cell
Grid_get_cell(g, cell_coords) ==
    IF has_chunk(g, ChunkCoordsOf(cell_coords))
    THEN g[ChunkCoordsOf(cell_coords)][LocalCoordsOf(cell_coords)]
    ELSE DefaultCell

\* make_chunk without its has_chunk test: an existing chunk is replaced.
make_chunk_Always(g, chunk_index) ==
    [c \in DOMAIN g \cup {chunk_index} |->
        IF c = chunk_index THEN default_chunk ELSE g[c]]

\* Grid::make_chunk: creates the chunk if there is none.
make_chunk(g, chunk_index) ==
    IF ~has_chunk(g, chunk_index)
    THEN [c \in DOMAIN g \cup {chunk_index} |->
             IF c = chunk_index THEN default_chunk ELSE g[c]]
    ELSE g

\* Grid::infer_chunk_mut: the grid once the chunk is sure to exist.
infer_chunk_mut(g, chunk_index) == make_chunk(g, chunk_index)

\* set_cell writing into a copy of the shared chunk array: the chunk is made,
\* the old value returned, the grid's own chunk left as it was.
Grid_set_cell_OnCopy(g, cell_coords, cell_value) ==
    LET g1 == infer_chunk_mut(g, ChunkCoordsOf(cell_coords))
    IN  [grid |-> g1,
         ret  |-> g1[ChunkCoordsOf(cell_coords)][LocalCoordsOf(cell_coords)]]

\* Grid::set_cell: the grid after the write and the value replaced.
Grid_set_cell(g, cell_coords, cell_value) ==
    LET local_coords == LocalCoordsOf(cell_coords)
        chunk_index  == ChunkCoordsOf(cell_coords)
        g1           == infer_chunk_mut(g, chunk_index)
    IN  [grid |-> [g1 EXCEPT ![chunk_index][local_coords] = cell_value],
         ret  |-> g1[chunk_index][local_coords]]

\* Grid::remove_chunk
remove_chunk(g, chunk_index) ==
    [c \in DOMAIN g \ {chunk_index} |-> g[c]]

\* remove_chunk_if_empty without its is_chunk_empty test: whatever chunk
\* exists is removed.
remove_chunk_if_empty_AnyChunk(g, chunk_index) ==
    IF has_chunk(g, chunk_index)
    THEN [grid |-> remove_chunk(g, chunk_index), ret |-> TRUE]
    ELSE [grid |-> g, ret |-> FALSE]

\* Grid::remove_chunk_if_empty: the grid afterwards and whether it removed.
remove_chunk_if_empty(g, chunk_index) ==
    IF has_chunk(g, chunk_index) /\ is_chunk_empty(g, chunk_index)
    THEN [grid |-> remove_chunk(g, chunk_index), ret |-> TRUE]
    ELSE [grid |-> g, ret |-> FALSE]

(***************************************************************************)
(* NdTree<u8, D>, D = 1 (specification 3 and 4.3): a root node of some     *)
(* layer and the world coordinate of its low corner.  The root of layer L  *)
(* covers the 2^L cells offset .. offset + 2^L - 1; cells[i] is the leaf   *)
(* reached from the root by the bits of i, most significant first.         *)
(***************************************************************************)
RECURSIVE Pow2(_)
\* 2^k: the side of a node of layer k, the generations of a step of rank k.
Pow2(k) == IF k <= 0 THEN 1 ELSE 2 * Pow2(k - 1)

\* The tree of NdTree::default(): an empty root, a single default leaf.
EmptyTree == [layer |-> 0, offset |-> 0, cells |-> [i \in {0} |-> 0]]

\* Whether the position lies inside the root's footprint.
InFootprint(t, pos) == t.offset <= pos /\ pos < t.offset + Pow2(t.layer)

\* NdTree::get_cell: 0 outside the root's footprint.
Tree_get_cell(t, pos) ==
    IF InFootprint(t, pos) THEN t.cells[pos - t.offset] ELSE 0

\* One step of growth: the root becomes one corner of a new parent whose
\* other child is empty; the low corner when the tree has to reach upwards.
WrapRoot(t, asHigh) ==
    LET side == Pow2(t.layer)
    IN  [layer  |-> t.layer + 1,
         offset |-> IF asHigh THEN t.offset - side ELSE t.offset,
         cells  |-> [i \in 0..(2 * side - 1) |->
                        IF asHigh
                        THEN (IF i >= side THEN t.cells[i - side] ELSE 0)
                        ELSE (IF i < side THEN t.cells[i] ELSE 0)]]

RECURSIVE Tree_grow(_, _)
\* Growth of the root until the position is in range.
Tree_grow(t, pos) ==
    IF InFootprint(t, pos) THEN t
    ELSE Tree_grow(WrapRoot(t, pos < t.offset), pos)

\* NdTree::set_cell: grows the root if necessary, then rewrites the leaf.
Tree_set_cell(t, pos, state) ==
    LET g == Tree_grow(t, pos)
    IN  [g EXCEPT !.cells[pos - g.offset] = state]

\* The positions of the non-default cells, with their states.
TreeContent(t) ==
    {<<t.offset + i, t.cells[i]>> : i \in {j \in DOMAIN t.cells : t.cells[j] # 0}}

\* The positions of the non-default cells.
LivePositions(t) == {t.offset + i : i \in {j \in DOMAIN t.cells : t.cells[j] # 0}}

RECURSIVE Tree_shrink(_)
\* NdTree::shrink: while all children but one are empty, that child is the root.
Tree_shrink(t) ==
    IF t.layer = 0 THEN t
    ELSE LET half == Pow2(t.layer - 1)
             low  == [layer |-> t.layer - 1, offset |-> t.offset,
                      cells |-> [i \in 0..(half - 1) |-> t.cells[i]]]
             high == [layer |-> t.layer - 1, offset |-> t.offset + half,
                      cells |-> [i \in 0..(half - 1) |-> t.cells[i + half]]]
         IN  IF \A i \in half..(2 * half - 1) : t.cells[i] = 0 THEN Tree_shrink(low)
             ELSE IF \A i \in 0..(half - 1) : t.cells[i] = 0 THEN Tree_shrink(high)
             ELSE t

(***************************************************************************)
(* NdProjection<u8, D, P> with D = P (specification 4.7).                  *)
(***************************************************************************)
\* NdProjection::default(): every axis of the tree shown as it is.
DefaultProjection == [axes |-> <<1>>, slice |-> <<>>]

\* NdProjection::unproject_pos: the tree position a view position stands for.
unproject_pos(projection, pos) == pos

(***************************************************************************)
(* Rule (specification 4.4), radius 1.  The rules the environment installs: *)
(* the dummy rule, a rule under which patterns change and spread, and a    *)
(* rule whose transition function panics.                                  *)
(***************************************************************************)
Rules == {"Dummy", "Parity", "Faulty"}

\* Whether the rule's transition function panics when it is invoked.
rule_panics(rule) == rule = "Faulty"

\* Rule::transition on the neighbourhood (left, centre, right).
transition(rule, l, c, r) ==
    IF rule = "Parity"
    THEN (IF (l # 0) # (r # 0) THEN 1 ELSE 0)
    ELSE c

(***************************************************************************)
(* Simulation<u8, D> (specification 4.5): the rule and the results cached  *)
(* under it, each entry the result of one padded root for one step rank.   *)
(***************************************************************************)
\* Simulation::from(rule): a step engine for the rule, nothing cached yet.
Simulation_from(rule) == [rule |-> rule, cache |-> {}]

\* The cells of the root one generation later (beyond the root: empty space).
NextGeneration(rule, t) ==
    [t EXCEPT !.cells = [i \in DOMAIN t.cells |->
        transition(rule,
                   Tree_get_cell(t, t.offset + i - 1),
                   t.cells[i],
                   Tree_get_cell(t, t.offset + i + 1))]]

RECURSIVE Advance(_, _, _)
\* The root advanced by g generations.
Advance(rule, t, g) ==
    IF g <= 0 THEN t ELSE Advance(rule, NextGeneration(rule, t), g - 1)

RECURSIVE PadLayer(_, _)
\* The root padded upwards until its layer is at least the given one.
PadLayer(t, layer) ==
    IF t.layer >= layer THEN t ELSE PadLayer(WrapRoot(t, FALSE), layer)

\* The smallest and the largest of a non-empty set of integers.
MinOf(S) == CHOOSE x \in S : \A y \in S : x <= y
MaxOf(S) == CHOOSE x \in S : \A y \in S : y <= x

\* The root padded for a step of rank k: of layer >= k + 2, and wide enough
\* that the result holds everything the pattern becomes in 2^k generations.
PadTree(t, k) ==
    LET live == LivePositions(t)
        wide == IF live = {} THEN t
                ELSE Tree_grow(Tree_grow(t, MinOf(live) - Pow2(k)),
                               MaxOf(live) + Pow2(k))
    IN  PadLayer(wide, k + 2)

RECURSIVE HighRank(_)
\* The largest k with 2^k <= n, for n >= 1.
HighRank(n) == IF n <= 1 THEN 0 ELSE 1 + HighRank(n \div 2)

RECURSIVE StepRanks(_)
\* The binary expansion of the step size, largest power first.
StepRanks(n) ==
    IF n <= 0 THEN <<>>
    ELSE <<HighRank(n)>> \o StepRanks(n - Pow2(HighRank(n)))

\* The root with the given content in place of its own (the content fits).
WithContent(t, content) ==
    [t EXCEPT !.cells = [i \in DOMAIN t.cells |->
        IF \E c \in content : c[1] = t.offset + i
        THEN (CHOOSE c \in content : c[1] = t.offset + i)[2]
        ELSE 0]]

\* The result cache, keyed by (node, step): a node is canonical for its cell
\* content, so an entry names the content of the padded root, the rank of the
\* step, and the content of the result.
CacheInsert(cache, node, k, result) ==
    cache \cup {[node |-> TreeContent(node), k |-> k, result |-> TreeContent(result)]}

\* The cached results of the padded root for rank k.
CacheHits(cache, node, k) == {e \in cache : e.node = TreeContent(node) /\ e.k = k}

RECURSIVE RunRanks(_, _, _, _)
\* The steps of the given ranks in turn, each on the padded root, each result
\* taken from the cache or computed with the rule and cached.
RunRanks(rule, cache, t, ranks) ==
    IF ranks = <<>> THEN [status |-> "Ok", tree |-> t, cache |-> cache]
    ELSE LET k      == Head(ranks)
             padded == PadTree(t, k)
             hits   == CacheHits(cache, padded, k)
         IN  IF hits # {}
             THEN RunRanks(rule, cache,
                           WithContent(padded, (CHOOSE e \in hits : TRUE).result),
                           Tail(ranks))
             ELSE IF rule_panics(rule)
             THEN [status |-> "RuleFailure", tree |-> t, cache |-> cache]
             ELSE LET result == Advance(rule, padded, Pow2(k))
                  IN  RunRanks(rule, CacheInsert(cache, padded, k, result),
                               result, Tail(ranks))

\* Simulation::step (advance): the status, the tree and the engine afterwards.
\* The new root is committed only when every rank succeeded.
Simulation_step(sim, tree, step_size) ==
    IF step_size < 0
    THEN [status |-> "UnsupportedStepDirection", tree |-> tree, sim |-> sim]
    ELSE LET r == RunRanks(sim.rule, sim.cache, tree, StepRanks(step_size))
         IN  IF r.status = "Ok"
             THEN [status |-> "Ok", tree |-> Tree_shrink(r.tree),
                   sim |-> [sim EXCEPT !.cache = r.cache]]
             ELSE [status |-> r.status, tree |-> tree,
                   sim |-> [sim EXCEPT !.cache = r.cache]]

(***************************************************************************)
(* ConstValue (src/lang/src/constvalue.rs): the values of the rule         *)
(* interpreter.  A LangResult is ok with a value, or an InternalError.     *)
(***************************************************************************)
\* ConstValue::Void, ::Int(i), ::CellState(i), ::Vector(v), ::String(s)
Void == [tag |-> "Void"]
Int_(i) == [tag |-> "Int", i |-> i]
CellState(i) == [tag |-> "CellState", i |-> i]
Vector(v) == [tag |-> "Vector", v |-> v]
String_(s) == [tag |-> "String", s |-> s]

\* Ok(v) and uncaught_type_error!()
Ok(v) == [ok |-> TRUE, v |-> v]
uncaught_type_error == [ok |-> FALSE, v |-> "InternalError"]

\* coerce_to_vector without the truncation branch: a vector that is too
\* long is returned whole.
coerce_to_vector_NoTruncate(self, len) ==
    IF self.tag = "Int" THEN Ok([k \in 1..len |-> self.i])
    ELSE IF self.tag = "Vector"
    THEN (IF Len(self.v) < len
          THEN Ok(self.v \o [k \in 1..(len - Len(self.v)) |-> 0])
          ELSE Ok(self.v))
    ELSE uncaught_type_error

\* ConstValue::coerce_to_vector
coerce_to_vector(self, len) ==
    IF self.tag = "Int" THEN Ok([k \in 1..len |-> self.i])
    ELSE IF self.tag = "Vector"
    THEN (IF Len(self.v) < len
          THEN Ok(self.v \o [k \in 1..(len - Len(self.v)) |-> 0])
          ELSE IF Len(self.v) > len
          THEN Ok(SubSeq(self.v, 1, len))
          ELSE Ok(self.v))
    ELSE uncaught_type_error

(***************************************************************************)
(* Viewport2D (src/src/ui/gridview/view2d/viewport.rs).  pos is a vector   *)
(* of integers; x_offset and y_offset are f32.                             *)
(***************************************************************************)
\* 1.0 and 0.5 as floats.
One == Pow2(FracBits)
Half == Pow2(FracBits - 1)

\* |n|
Abs(n) == IF n < 0 THEN 0 - n ELSE n

RECURSIVE ExponentOf(_)
\* The number of low bits a float of magnitude m cannot keep.
ExponentOf(m) == IF m < Pow2(MantBits) THEN 0 ELSE 1 + ExponentOf(m \div 2)

\* The float nearest to the real number n * 2^-FracBits, ties to even.
RoundF(n) ==
    LET m    == Abs(n)
        e    == ExponentOf(m)
        q    == m \div Pow2(e)
        r    == m % Pow2(e)
        up   == 2 * r > Pow2(e) \/ (2 * r = Pow2(e) /\ q % 2 = 1)
        mag  == (IF up THEN q + 1 ELSE q) * Pow2(e)
    IN  IF n < 0 THEN 0 - mag ELSE mag

\* f32 addition, subtraction, floor, and the cast `as isize`.
FAdd(a, b) == RoundF(a + b)
FSub(a, b) == RoundF(a - b)
Floor(a) == (a \div One) * One
AsIsize(a) == a \div One

\* Viewport2D::default()
Viewport2D_default == [pos |-> <<0, 0>>, x_offset |-> 0, y_offset |-> 0]

\* Viewport2D::scroll_cells
scroll_cells(v, dx, dy) ==
    LET x1     == FAdd(v.x_offset, dx)
        y1     == FAdd(v.y_offset, dy)
        int_dx == Floor(x1)
        int_dy == Floor(y1)
    IN  [pos      |-> <<v.pos[1] + AsIsize(int_dx), v.pos[2] + AsIsize(int_dy)>>,
         x_offset |-> FSub(x1, int_dx),
         y_offset |-> FSub(y1, int_dy)]

\* Viewport2D::scroll_pixels, at a zoom of cells_per_pixel cells per pixel.
scroll_pixels(v, dx, dy, cells_per_pixel) ==
    scroll_cells(v, RoundF(dx * cells_per_pixel), RoundF(dy * cells_per_pixel))

\* Viewport2D::snap_pos
snap_pos(v) ==
    [pos      |-> <<IF v.x_offset >= Half THEN v.pos[1] + 1 ELSE v.pos[1],
                    IF v.y_offset >= Half THEN v.pos[2] + 1 ELSE v.pos[2]>>,
     x_offset |-> 0,
     y_offset |-> 0]

(***************************************************************************)
(* NdAutomaton<D> and NdProjectedAutomaton<D, P> (src/core/src/lib.rs).    *)
(* An automaton holds its tree, a reference to a Simulation shared behind  *)
(* Arc<Mutex<..>>, and its generation count; the projected automaton adds  *)
(* the projection.  A Mutex is poisoned when a thread panics holding it.   *)
(***************************************************************************)
AutoIds == {1, 2}
SimIds == {1, 2, 3}

\* A slot of the heap that holds no Simulation.
FreeMutex == [live |-> FALSE, poisoned |-> FALSE, sim |-> Simulation_from("Dummy")]

\* Mutex::new(sim)
Mutex_new(sim) == [live |-> TRUE, poisoned |-> FALSE, sim |-> sim]

\* An automaton identity that holds no automaton.
NoAuto == [live |-> FALSE, tree |-> EmptyTree, sim |-> 0, generations |-> 0,
           projection |-> DefaultProjection]

\* NdProjectedAutomaton::default(): NdAutomaton::default() under the default
\* projection; its Simulation is the heap object `sim`.
NdProjectedAutomaton_default(sim) ==
    [live |-> TRUE, tree |-> EmptyTree, sim |-> sim, generations |-> 0,
     projection |-> DefaultProjection]

\* NdProjection::project: the tree as the view shows it.
project(projection, tree) == tree

\* NdProjectedAutomatonTrait::get_projected_tree
get_projected_tree(pa) == project(pa.projection, pa.tree)

\* NdProjectedAutomaton::set_cell
NdProjectedAutomaton_set_cell(pa, pos, state) ==
    [pa EXCEPT !.tree = Tree_set_cell(pa.tree, unproject_pos(pa.projection, pos), state)]

\* NdAutomaton::set_generation_count
set_generation_count(pa, generations) == [pa EXCEPT !.generations = generations]

\* step counting calls instead of generations.
NdAutomaton_step_PlusOne(pa, mutex, step_size) ==
    IF mutex.poisoned
    THEN [outcome |-> "panic", engine |-> "none", auto |-> pa, mutex |-> mutex]
    ELSE LET r == Simulation_step(mutex.sim, pa.tree, step_size)
         IN  [outcome |-> "returned",
              engine  |-> r.status,
              auto    |-> [pa EXCEPT !.tree = r.tree,
                                     !.generations = pa.generations + 1],
              mutex   |-> [mutex EXCEPT !.sim = r.sim]]

\* step with `=` for `+=`: the count is the size of the latest step.
NdAutomaton_step_Assign(pa, mutex, step_size) ==
    IF mutex.poisoned
    THEN [outcome |-> "panic", engine |-> "none", auto |-> pa, mutex |-> mutex]
    ELSE LET r == Simulation_step(mutex.sim, pa.tree, step_size)
         IN  [outcome |-> "returned",
              engine  |-> r.status,
              auto    |-> [pa EXCEPT !.tree = r.tree,
                                     !.generations = step_size],
              mutex   |-> [mutex EXCEPT !.sim = r.sim]]

\* step unwrapping what Simulation::step returns while it holds the guard:
\* an error of the engine is a panic that poisons the mutex.
NdAutomaton_step_Unwrap(pa, mutex, step_size) ==
    IF mutex.poisoned
    THEN [outcome |-> "panic", engine |-> "none", auto |-> pa, mutex |-> mutex]
    ELSE LET r == Simulation_step(mutex.sim, pa.tree, step_size)
         IN  IF r.status # "Ok"
             THEN [outcome |-> "panic", engine |-> r.status, auto |-> pa,
                   mutex |-> [mutex EXCEPT !.sim = r.sim, !.poisoned = TRUE]]
             ELSE [outcome |-> "returned",
                   engine  |-> r.status,
                   auto    |-> [pa EXCEPT !.tree = r.tree,
                                          !.generations = pa.generations + step_size],
                   mutex   |-> [mutex EXCEPT !.sim = r.sim]]

\* NdAutomaton::step: the automaton and its Simulation's mutex afterwards.
\* lock().unwrap() panics on a poisoned mutex; what Simulation::step returns
\* is dropped, and step_size is then added to the generation count.
NdAutomaton_step(pa, mutex, step_size) ==
    IF mutex.poisoned
    THEN [outcome |-> "panic", engine |-> "none", auto |-> pa, mutex |-> mutex]
    ELSE LET r == Simulation_step(mutex.sim, pa.tree, step_size)
         IN  [outcome |-> "returned",
              engine  |-> r.status,
              auto    |-> [pa EXCEPT !.tree = r.tree,
                                     !.generations = pa.generations + step_size],
              mutex   |-> [mutex EXCEPT !.sim = r.sim]]

\* The Simulation objects some automaton refers to.
Referenced(as) == {as[a].sim : a \in {x \in AutoIds : as[x].live}}

\* The contents of the nodes some tree holds as its root.
LiveContents(as) == {TreeContent(as[a].tree) : a \in {x \in AutoIds : as[x].live}}

\* The cache holds its nodes weakly: an entry is gone once no tree holds its
\* node or its result.
LiveEntries(as, cache) ==
    {e \in cache : e.node \in LiveContents(as) /\ e.result \in LiveContents(as)}

\* The heap once the objects no Arc refers to and the cache entries whose
\* nodes no tree holds are dropped.
DropUnreferenced(as, heap) ==
    [i \in SimIds |->
        IF i \in Referenced(as)
        THEN [heap[i] EXCEPT !.sim.cache = LiveEntries(as, @)]
        ELSE FreeMutex]

\* The identity of the object Arc::new makes for automaton a: one that no
\* other automaton refers to (the object a referred to is dropped if unshared).
NewSimId(as, a) ==
    MinOf(SimIds \ {as[b].sim : b \in {x \in AutoIds \ {a} : as[x].live}})

\* NdAutomaton::set_sim: the automaton refers to a new Arc<Mutex<new_sim>>.
NdAutomaton_set_sim(pa, id) == [pa EXCEPT !.sim = id]

\* A thread that is not inside a call of step.
NotStepping == [pc |-> "idle", step_size |-> 0]

\* A lock that is given to whoever asks for it.
can_lock_Always(holder) == TRUE

\* Mutex::lock: the calling thread blocks while another thread holds the
\* mutex (holder 0: nobody does).
can_lock(holder) == holder = 0

\* A call of Grid::set_cell.
GridSetCell(p, v) ==
    LET r == Grid_set_cell(chunks, p, v)
    IN  /\ chunks' = r.grid
        /\ lastOp' = Op("Grid.set_cell", 0, p, v, FALSE, r.ret, "none", "returned")
        /\ UNCHANGED <<autos, sims, otherVars>>

\* get_cell reading through infer_chunk_mut: the chunk is made by the read.
GridGetCell_Allocating(p) ==
    /\ chunks' = make_chunk(chunks, ChunkCoordsOf(p))
    /\ lastOp' = Op("Grid.get_cell", 0, p, 0, FALSE,
                 Grid_get_cell(chunks, p), "none", "returned")
    /\ UNCHANGED <<autos, sims, otherVars>>

\* A call of Grid::get_cell (&self: the grid is only read).
GridGetCell(p) ==
    /\ chunks' = chunks
    /\ lastOp' = Op("Grid.get_cell", 0, p, 0, FALSE,
                 Grid_get_cell(chunks, p), "none", "returned")
    /\ UNCHANGED <<autos, sims, otherVars>>

\* A call of Grid::remove_chunk_if_empty.
GridRemoveChunkIfEmpty(c) ==
    LET r == remove_chunk_if_empty(chunks, c)
    IN  /\ chunks' = r.grid
        /\ lastOp' = Op("Grid.remove_chunk_if_empty", 0, c, 0, FALSE,
                         IF r.ret THEN 1 ELSE 0, "none", "returned")
        /\ UNCHANGED <<autos, sims, otherVars>>

\* A call of NdProjectedAutomaton::set_cell.
SetCell(a, pos, state) ==
    /\ autos[a].live
    /\ autos' = [autos EXCEPT ![a] = NdProjectedAutomaton_set_cell(autos[a], pos, state)]
    /\ sims' = DropUnreferenced(autos', sims)
    /\ lastOp' = Op("set_cell", a, pos, state, FALSE, 0, "none", "returned")
    /\ UNCHANGED <<chunks, otherVars>>

\* A read of a cell through the projection: get_projected_tree().get_cell(pos).
GetCell(a, pos) ==
    /\ autos[a].live
    /\ lastOp' = Op("get_cell", a, pos, 0, FALSE,
                    Tree_get_cell(get_projected_tree(autos[a]), pos), "none", "returned")
    /\ UNCHANGED <<chunks, autos, sims, otherVars>>

\* A call of NdSimulate::set_generation_count.
SetGenerationCount(a, g) ==
    /\ autos[a].live
    /\ autos' = [autos EXCEPT ![a] = set_generation_count(autos[a], g)]
    /\ lastOp' = Op("set_generation_count", a, 0, g, FALSE, 0, "none", "returned")
    /\ UNCHANGED <<chunks, sims, otherVars>>

\* A call of NdSimulate::step, during which the caller may ask to cancel.
Step(a, n, cancel) ==
    /\ autos[a].live
    /\ LET r == NdAutomaton_step(autos[a], sims[autos[a].sim], n)
       IN  /\ r.auto.generations \in -1..MaxGen
           /\ LivePositions(r.auto.tree) \subseteq (0 - MaxExtent)..MaxExtent
           /\ autos' = [autos EXCEPT ![a] = r.auto]
           /\ sims' = DropUnreferenced(autos', [sims EXCEPT ![autos[a].sim] = r.mutex])
           /\ lastOp' = Op("step", a, 0, n, cancel, 0, r.engine, r.outcome)
    /\ UNCHANGED <<chunks, otherVars>>

\* set_sim storing the new rule in the Simulation the automaton already
\* refers to, with everything that Simulation has cached.
SetSim_InPlace(a, rule) ==
    /\ autos[a].live
    /\ autos' = autos
    /\ sims' = [sims EXCEPT ![autos[a].sim].sim.rule = rule]
    /\ lastOp' = [Op("set_sim", a, 0, 0, FALSE, 0, "none", "returned") EXCEPT !.rule = rule]
    /\ UNCHANGED <<chunks, otherVars>>

\* A call of NdAutomaton::set_sim(Simulation::from(rule)).
SetSim(a, rule) ==
    /\ autos[a].live
    /\ LET id  == NewSimId(autos, a)
           as2 == [autos EXCEPT ![a] = NdAutomaton_set_sim(autos[a], id)]
       IN  /\ autos' = as2
           /\ sims' = DropUnreferenced(as2, [sims EXCEPT ![id] = Mutex_new(Simulation_from(rule))])
    /\ lastOp' = [Op("set_sim", a, 0, 0, FALSE, 0, "none", "returned") EXCEPT !.rule = rule]
    /\ UNCHANGED <<chunks, otherVars>>

\* A call of Clone::clone: the tree and the count are copied, the Arc shared.
Clone(a, b) ==
    /\ autos[a].live
    /\ ~autos[b].live
    /\ autos' = [autos EXCEPT ![b] = autos[a]]
    /\ lastOp' = Op("clone", a, 0, b, FALSE, 0, "none", "returned")
    /\ UNCHANGED <<chunks, sims, otherVars>>

(***************************************************************************)
(* Specifications.                                                         *)
(***************************************************************************)
\* ---------------------------------------------------------------------------
\* CachedSrgbTexture2d (ui/gridview/view2d/render/textures.rs)
\* ---------------------------------------------------------------------------

\* Option: None, and Some(x).
None == <<>>
Some(x) == <<x>>
\* Option::unwrap of a Some.
unwrap(o) == o[1]

\* #[derive(Default)]: no texture and no size.
CachedSrgbTexture2d_default == [cached |-> None, current_size |-> None]

\* SrgbTexture2d::empty(&**DISPLAY, w, h): the n-th texture of the display, of
\* the given size.
SrgbTexture2d_empty(n, w, h) == [id |-> n, w |-> w, h |-> h]

\* The quotient a as f64 / b as f64 of two u32, kept as the pair it is
\* computed from.
Div(a, b) == <<a, b>>

\* A quotient is at most 1.0.
AtMostOne(q) == q[1] <= q[2]

\* set_size(w, h) on the texture t, when the display has created n textures:
\* the texture after the call and the display's count.
set_size(t, n, w, h) ==
    IF t.current_size # Some(<<w, h>>)
    THEN [t |-> [cached |-> Some(SrgbTexture2d_empty(n + 1, w, h)),
                 current_size |-> Some(<<w, h>>)],
          n |-> n + 1]
    ELSE [t |-> t, n |-> n]

set_min_size_Always(t, n, w, h) ==
    set_size(t, n, w, h) @@ [ret |-> <<Div(1, 1), Div(1, 1)>>]

\* set_min_size(w, h): the texture and the count after the call, and the
\* fractions returned.
set_min_size(t, n, w, h) ==
    IF /\ t.current_size # None
       /\ unwrap(t.current_size)[1] >= w
       /\ unwrap(t.current_size)[2] >= h
    THEN [t |-> t, n |-> n,
          ret |-> <<Div(w, unwrap(t.current_size)[1]),
                   Div(h, unwrap(t.current_size)[2])>>]
    ELSE set_size(t, n, w, h) @@ [ret |-> <<Div(1, 1), Div(1, 1)>>]

\* reset dropping the texture and keeping the size.
reset_KeepSize(t) == [t EXCEPT !.cached = None]

\* reset(): back to the default.
reset(t) == CachedSrgbTexture2d_default

\* CachedSrgbTexture2d::unwrap: self.cached.as_ref().unwrap() panics when no
\* texture is cached.
CachedSrgbTexture2d_unwrap(t) == IF t.cached = None THEN "panic" ELSE "returned"

\* make_fbo(): a frame buffer over self.unwrap().
make_fbo(t) == CachedSrgbTexture2d_unwrap(t)

\* at_size(w, h): set_size(w, h), then (self.unwrap(), self.make_fbo()).
at_size(t, n, w, h) ==
    LET r == set_size(t, n, w, h)
    IN  r @@ [outcome |-> IF CachedSrgbTexture2d_unwrap(r.t) = "panic"
                          THEN "panic" ELSE make_fbo(r.t)]

(***************************************************************************)
(* NdProjectedAutomaton<D, P> with D > P, and ProjectedAutomaton<P>        *)
(* (core lib.rs; the projection after specification 4.7).  A view of       *)
(* ViewDim axes into a storage of StorageDim axes: the projection          *)
(* parameters name the storage axis of each view axis and a slice          *)
(* coordinate for every other storage axis, in the order of the axes.      *)
(***************************************************************************)
StorageDim == 2
ViewDim == 1
\* The highest dimension ProjectedAutomaton has a variant for.
MaxDim == 6
\* The number of states of the rule installed.
state_count == 2

\* The coordinates the environment uses on each axis.
ProjCoords == {0, 1}
\* The positions of the storage and of the view.
StoragePositions == [1..StorageDim -> ProjCoords]
ViewPositions == [1..ViewDim -> ProjCoords]

\* An error result.
Err(e) == [ok |-> FALSE, v |-> e]

\* The storage axes a sequence of axes does not name, in increasing order.
RECURSIVE AxesFrom(_, _)
AxesFrom(d, axes) ==
    IF d > StorageDim THEN <<>>
    ELSE (IF \E i \in DOMAIN axes : axes[i] = d THEN <<>> ELSE <<d>>)
         \o AxesFrom(d + 1, axes)
PinnedAxes(axes) == AxesFrom(1, axes)

\* ProjectionParams -> projector (TryInto): the storage axis of each view
\* axis and the pinned coordinate of every other storage axis, or
\* ProjectionShapeMismatch when the parameters do not choose ViewDim distinct
\* axes of the storage or the slice does not pin exactly the other axes.
try_into(params) ==
    IF /\ Len(params.axes) = ViewDim
       /\ \A i \in DOMAIN params.axes : params.axes[i] \in 1..StorageDim
       /\ \A i, j \in DOMAIN params.axes : params.axes[i] = params.axes[j] => i = j
       /\ Len(params.slice) = StorageDim - ViewDim
    THEN Ok([view_axes |-> params.axes,
             pinned |-> [d \in {PinnedAxes(params.axes)[k] : k \in 1..Len(params.slice)} |->
                           params.slice[CHOOSE k \in 1..Len(params.slice) :
                                          PinnedAxes(params.axes)[k] = d]]])
    ELSE Err("ProjectionShapeMismatch")

\* NdProjection(projector)
NdProjection(projector) == projector

\* NdProjection::get_params: the parameters the projector was made from.
get_params(projection) ==
    [axes |-> projection.view_axes,
     slice |-> [k \in 1..Len(PinnedAxes(projection.view_axes)) |->
                  projection.pinned[PinnedAxes(projection.view_axes)[k]]]]

\* NdProjection::unproject_pos for a view of fewer axes than the storage: the
\* view coordinates on the axes of the view, the pinned coordinates elsewhere.
NdProjection_unproject_pos(projection, pos) ==
    [d \in 1..StorageDim |->
        IF \E i \in DOMAIN projection.view_axes : projection.view_axes[i] = d
        THEN pos[CHOOSE i \in DOMAIN projection.view_axes : projection.view_axes[i] = d]
        ELSE projection.pinned[d]]

\* The storage tree by its content: the state of every position.
NdTree_new == [p \in StoragePositions |-> DefaultCell]
NdTree_set_cell(tree, pos, state) == [tree EXCEPT ![pos] = state]

\* The projected automaton the environment holds: an empty storage, the
\* Simulation `sim`, and the view of the first axis through the origin.
Projected_new(sim) ==
    [tree |-> NdTree_new, sim |-> sim, generations |-> 0,
     projection |-> NdProjection(try_into([axes |-> <<1>>, slice |-> <<0>>]).v)]

\* NdProjectedAutomatonTrait::get_projection_params
get_projection_params(pa) == get_params(pa.projection)

\* set_projection_params putting the default view back when the parameters
\* are refused.
set_projection_params_Reset(pa, params) ==
    LET r == try_into(params)
    IN  IF r.ok
        THEN [auto |-> [pa EXCEPT !.projection = NdProjection(r.v)], ret |-> Ok(<<>>)]
        ELSE [auto |-> [pa EXCEPT !.projection = Projected_new(pa.sim).projection],
              ret |-> r]

\* NdProjectedAutomatonTrait::set_projection_params: the automaton after the
\* call and the Result returned; `?` returns the error before the assignment.
set_projection_params(pa, params) ==
    LET r == try_into(params)
    IN  IF r.ok
        THEN [auto |-> [pa EXCEPT !.projection = NdProjection(r.v)], ret |-> Ok(<<>>)]
        ELSE [auto |-> pa, ret |-> r]

\* set_cell writing on the first axes whatever the projection.
Projected_set_cell_Simple(pa, pos, state) ==
    [pa EXCEPT !.tree = NdTree_set_cell(pa.tree,
                 [d \in 1..StorageDim |-> IF d \in DOMAIN pos THEN pos[d] ELSE 0],
                 state)]

\* NdProjectedAutomatonTrait::set_cell for NdProjectedAutomaton<D, P>
Projected_set_cell(pa, pos, state) ==
    [pa EXCEPT !.tree = NdTree_set_cell(pa.tree,
                 NdProjection_unproject_pos(pa.projection, pos), state)]

\* ProjectedAutomaton::<P>::default() for P::NDIM = ndim: the variant
\* From<ndim>D around NdProjectedAutomaton::<P, P>::default(), and
\* unreachable!() for any other ndim.
ProjectedAutomaton_default(ndim) ==
    IF ndim \in 1..MaxDim
    THEN [outcome |-> "returned", variant |-> ndim, storage |-> ndim, view |-> ndim]
    ELSE [outcome |-> "panic", variant |-> 0, storage |-> 0, view |-> 0]

(***************************************************************************)
(* Node arena / interner (specification 3 and 4.2), for the trees of one   *)
(* axis: a node is a leaf of layer 0 holding a state or a branch of layer  *)
(* L holding the ids of its two children of layer L - 1.                   *)
(***************************************************************************)
\* The arena holds at most MaxNodes + 1 nodes when an intern call begins.
MaxNodes == 8

\* The empty arena: no node, and the id the next node gets.
Arena_new == [nodes |-> {}, next |-> 1]

\* The ids the arena has for a (layer, payload).
Lookup(ar, layer, payload) ==
    {n.id : n \in {m \in ar.nodes : m.layer = layer /\ m.payload = payload}}

\* The second half of an intern call: publish the node constructed, or return
\* the one that exists.
publish(ar, layer, payload) ==
    IF Lookup(ar, layer, payload) # {}
    THEN [arena |-> ar,
          id |-> CHOOSE i \in Lookup(ar, layer, payload) : TRUE]
    ELSE [arena |-> [nodes |-> ar.nodes \cup
                        {[id |-> ar.next, layer |-> layer, payload |-> payload]},
                     next |-> ar.next + 1],
          id |-> ar.next]

\* intern_leaf(state) and intern_branch(layer, children) by one thread with
\* no other thread interning: look up, else construct and publish.
intern_leaf(ar, state) == publish(ar, 0, <<state>>)
intern_branch(ar, layer, children) == publish(ar, layer, children)

RECURSIVE intern_cells(_, _, _, _)
\* The node of layer `layer` for the cells lo .. lo + 2^layer - 1 of a root:
\* its children are interned first, then the branch over them.
intern_cells(ar, layer, cells, lo) ==
    IF layer = 0 THEN intern_leaf(ar, cells[lo])
    ELSE LET low  == intern_cells(ar, layer - 1, cells, lo)
             high == intern_cells(low.arena, layer - 1, cells, lo + Pow2(layer - 1))
         IN  intern_branch(high.arena, layer, <<low.id, high.id>>)

\* A tree with its root node: the arena after interning the root, and the
\* tree with the root's id.
WithRoot(ar, t) ==
    LET r == intern_cells(ar, t.layer, t.cells, 0)
    IN  [arena |-> r.arena, tree |-> [tree |-> t, root |-> r.id]]

\* The trees and the threads that intern.
TreeIds == {1, 2}
Threads == {1, 2}
IdleThread == [pc |-> "idle", layer |-> 0, payload |-> <<>>, ret |-> 0]

Positions == (0 - MaxPos)..MaxPos
StepSizes == -1..MaxStep

Init ==
    /\ chunks = Grid_new
    /\ autos = [a \in AutoIds |-> IF a = 1 THEN NdProjectedAutomaton_default(1) ELSE NoAuto]
    /\ sims = [i \in SimIds |->
                 IF i = 1 THEN Mutex_new(Simulation_from("Dummy")) ELSE FreeMutex]
    /\ lastOp = NoOp
    /\ value = Void
    /\ viewport = Viewport2D_default
    /\ texture = CachedSrgbTexture2d_default
    /\ display = 0
    /\ projected = Projected_new(1)
    /\ arena = WithRoot(Arena_new, EmptyTree).arena
    /\ roots = [T \in TreeIds |-> WithRoot(Arena_new, EmptyTree).tree]
    /\ interning = [t \in Threads |-> IdleThread]
    /\ stepping = [a \in AutoIds |-> NotStepping]
    /\ held = [i \in SimIds |-> 0]

GridNext ==
    \/ \E p \in GridCoords, v \in States : GridSetCell(p, v)
    \/ \E p \in GridCoords : GridGetCell(p)
    \/ \E c \in GridChunks : GridRemoveChunkIfEmpty(c)

\* Grid positions the environment touches when it works on both stores: the
\* last cell of chunk -1 and the first cell of chunk 0.
StoreCoords == {-1, 0}

StoreNext ==
    \/ \E p \in StoreCoords, v \in States : GridSetCell(p, v)
    \/ \E p \in StoreCoords : GridGetCell(p)
    \/ \E c \in GridChunks : GridRemoveChunkIfEmpty(c)
    \/ \E p \in Positions, v \in States : SetCell(1, p, v)
    \/ \E p \in Positions : GetCell(1, p)

AutoNext ==
    \/ \E p \in Positions, v \in States : SetCell(1, p, v)
    \/ \E n \in StepSizes, cancel \in BOOLEAN : Step(1, n, cancel)
    \/ \E g \in 0..1 : SetGenerationCount(1, g)
    \/ \E r \in Rules : SetSim(1, r)

\* The Grid alone.
SpecGrid == Init /\ [][GridNext]_vars

\* The two cell stores: the Grid, and the tree of an automaton.
SpecStore == Init /\ [][StoreNext]_vars

SharedNext ==
    \/ Clone(1, 2)
    \/ \E a \in AutoIds, n \in 0..MaxStep : Step(a, n, FALSE)
    \/ \E a \in AutoIds, r \in Rules : SetSim(a, r)
    \/ \E v \in States : SetCell(1, 0, v)

\* One automaton.
Spec == Init /\ [][AutoNext]_vars

\* An automaton and its clone, which share a Simulation until one of them is
\* given a new one.
SpecShared == Init /\ [][SharedNext]_vars

(***************************************************************************)
(* C1..C3: the cell stores.                                                *)
(***************************************************************************)
\* C1: after set_cell(p, s), get_cell(p) returns s: for the Grid, and for the
\* tree of an automaton written through NdProjectedAutomaton::set_cell and
\* read back through the projection.
C1_SetThenGet ==
    /\ lastOp.op = "Grid.set_cell" =>
           Grid_get_cell(chunks, lastOp.pos) = lastOp.val
    /\ lastOp.op = "set_cell" =>
           Tree_get_cell(get_projected_tree(autos[lastOp.who]), lastOp.pos) = lastOp.val

\* A cell of an existing Grid chunk at a negative position has just been
\* overwritten with a non-default value, and the tree holds a written cell
\* below its first root.
C1_Witness ==
    /\ lastOp.op = "Grid.set_cell"
    /\ lastOp.pos < 0
    /\ lastOp.val # 0
    /\ lastOp.ret # lastOp.val
    /\ Tree_get_cell(autos[1].tree, -1) # 0

\* Positions around the ones written, for the frame of a write.
FrameCoords == (0 - ChunkSize - 1)..ChunkSize

\* C2: Grid::set_cell(p2, v2) changes the cell at p2 only (the later write
\* wins there), every other cell reads as before, also in the chunk of p2,
\* and the call returns the value stored at p2 before.
C2_SetCellFrame ==
    [][lastOp'.op = "Grid.set_cell" =>
          /\ \A p1 \in FrameCoords :
                Grid_get_cell(chunks', p1) =
                    IF p1 = lastOp'.pos THEN lastOp'.val ELSE Grid_get_cell(chunks, p1)
          /\ lastOp'.ret = Grid_get_cell(chunks, lastOp'.pos)]_vars

\* A write has replaced a non-default value while the other cell of the same
\* chunk holds a non-default value.
C2_Witness ==
    /\ lastOp.op = "Grid.set_cell"
    /\ lastOp.ret # 0
    /\ lastOp.ret # lastOp.val
    /\ \E p1 \in GridCoords :
          /\ p1 # lastOp.pos
          /\ ChunkCoordsOf(p1) = ChunkCoordsOf(lastOp.pos)
          /\ Grid_get_cell(chunks, p1) # 0

\* C3: get_cell outside everything allocated (for the Grid: in a chunk that
\* does not exist; for the tree: outside the root's footprint) returns the
\* default state 0, and a read changes no storage: no chunk is created, the
\* root does not grow.
C3_ReadOutside ==
    [][/\ lastOp'.op = "Grid.get_cell" =>
            /\ chunks' = chunks
            /\ ~has_chunk(chunks, ChunkCoordsOf(lastOp'.pos)) => lastOp'.ret = 0
       /\ lastOp'.op = "get_cell" =>
            /\ autos' = autos
            /\ ~InFootprint(autos[lastOp'.who].tree,
                            unproject_pos(autos[lastOp'.who].projection, lastOp'.pos))
                  => lastOp'.ret = 0]_vars

\* A read has just returned from a chunk that does not exist while another
\* chunk holds a non-default cell, and the position 1 lies outside the root
\* of a tree that holds a non-default cell.
C3_Witness ==
    /\ lastOp.op = "Grid.get_cell"
    /\ ~has_chunk(chunks, ChunkCoordsOf(lastOp.pos))
    /\ ~is_empty(chunks)
    /\ ~InFootprint(autos[1].tree, 1)
    /\ LivePositions(autos[1].tree) # {}


(***************************************************************************)
(* C4..C10: stepping.                                                      *)
(***************************************************************************)
\* C4: a step(n) that returns adds exactly n to the generation count of the
\* automaton stepped (a successful step is one of these), and nothing but
\* step and set_generation_count changes an automaton's count (set_cell and
\* set_sim leave it alone); so after steps n1..nk the count is the first
\* plus their sum.
C4_GenerationCount ==
    [][\A a \in AutoIds :
          /\ (lastOp'.op = "step" /\ lastOp'.who = a /\ lastOp'.outcome = "returned") =>
                autos'[a].generations = autos[a].generations + lastOp'.val
          /\ (autos[a].live /\ autos'[a].generations # autos[a].generations) =>
                /\ lastOp'.op \in {"step", "set_generation_count"}
                /\ lastOp'.who = a]_vars

\* A step of size 2 has been carried out on a pattern, after other steps.
C4_Witness ==
    /\ lastOp.op = "step"
    /\ lastOp.engine = "Ok"
    /\ lastOp.val = 2
    /\ autos[1].generations = 3
    /\ LivePositions(autos[1].tree) # {}

\* step(n) then step(m) from the automaton `pa` with its Simulation `mutex`.
StepTwice(pa, mutex, n, m) ==
    LET r1 == NdAutomaton_step(pa, mutex, n)
    IN  NdAutomaton_step(r1.auto, r1.mutex, m)

\* C5: from every reachable state of an automaton, step(n) then step(m)
\* leaves the same cells and the same generation count as step(n + m), for
\* all n, m >= 0; and step(0) changes neither.
C5_StepsCompose ==
    \A a \in {x \in AutoIds : autos[x].live} :
        LET pa    == autos[a]
            mutex == sims[pa.sim]
            zero  == NdAutomaton_step(pa, mutex, 0).auto
        IN  /\ TreeContent(zero.tree) = TreeContent(pa.tree)
            /\ zero.generations = pa.generations
            /\ \A n, m \in 0..MaxStep :
                  LET two == StepTwice(pa, mutex, n, m).auto
                      one == NdAutomaton_step(pa, mutex, n + m).auto
                  IN  /\ TreeContent(two.tree) = TreeContent(one.tree)
                      /\ two.generations = one.generations

\* A pattern that spreads under its rule has been stepped, one step after
\* another.
C5_Witness ==
    /\ lastOp.op = "step"
    /\ lastOp.engine = "Ok"
    /\ lastOp.val = 1
    /\ sims[autos[1].sim].sim.rule = "Parity"
    /\ LivePositions(autos[1].tree) = {-1, 1}
    /\ autos[1].generations = 2

\* C6: step(n) with n < 0 is rejected with UnsupportedStepDirection and
\* leaves the tree and the generation count as they were.
C6_NegativeStepRejected ==
    [][(lastOp'.op = "step" /\ lastOp'.val < 0) =>
          /\ lastOp'.engine = "UnsupportedStepDirection"
          /\ autos'[lastOp'.who].tree = autos[lastOp'.who].tree
          /\ autos'[lastOp'.who].generations = autos[lastOp'.who].generations]_vars

\* C7: a step in which the rule's transition function panics ends with
\* RuleFailure and leaves the automaton as it was: the same root, the same
\* generation count.
C7_RuleFailureKeepsState ==
    [][(lastOp'.op = "step" /\ lastOp'.engine = "RuleFailure") =>
          /\ autos'[lastOp'.who].tree = autos[lastOp'.who].tree
          /\ autos'[lastOp'.who].generations = autos[lastOp'.who].generations]_vars

C9_CancelledStep ==
    [][(lastOp'.op = "step" /\ lastOp'.cancel) =>
          /\ lastOp'.engine = "Cancelled"
          /\ autos'[lastOp'.who].tree = autos[lastOp'.who].tree
          /\ autos'[lastOp'.who].generations = autos[lastOp'.who].generations]_vars

RECURSIVE TreeOf(_)
\* A tree with the given content.
TreeOf(content) ==
    IF content = {} THEN EmptyTree
    ELSE LET c == CHOOSE x \in content : TRUE
         IN  Tree_set_cell(TreeOf(content \ {c}), c[1], c[2])

\* The content of the tree g generations later under the rule, computed
\* generation by generation on a root with room for it, nothing cached.
Uncached(rule, t, g) ==
    LET live == LivePositions(t)
        wide == IF live = {} THEN t
                ELSE Tree_grow(Tree_grow(t, MinOf(live) - g), MaxOf(live) + g)
    IN  TreeContent(Advance(rule, wide, g))

AllDefault(g, c) == c \in DOMAIN g /\ \A i \in 0..(ChunkSize - 1) : g[c][i] = 0

\* C15: remove_chunk_if_empty(c) returns true exactly when chunk c exists
\* with default cells only, and then removes it and nothing else; otherwise
\* the grid is as it was, so a chunk with a non-default cell stays.  set_cell
\* leaves the chunk of the written cell present, also when it writes the
\* default; so once the only non-default cell is written back to 0,
\* remove_chunk_if_empty leaves the chunk absent.
C15_RemoveChunkIfEmpty ==
    [][/\ lastOp'.op = "Grid.remove_chunk_if_empty" =>
            /\ (lastOp'.ret = 1) = AllDefault(chunks, lastOp'.pos)
            /\ IF lastOp'.ret = 1
               THEN /\ DOMAIN chunks' = DOMAIN chunks \ {lastOp'.pos}
                    /\ \A c \in DOMAIN chunks' : chunks'[c] = chunks[c]
               ELSE chunks' = chunks
       /\ lastOp'.op = "Grid.set_cell" =>
            ChunkCoordsOf(lastOp'.pos) \in DOMAIN chunks']_vars

\* A chunk whose cells are default again has just been removed, while the
\* other chunk, which holds a non-default cell, stays.
C15_Witness ==
    /\ lastOp.op = "Grid.remove_chunk_if_empty"
    /\ lastOp.ret = 1
    /\ lastOp.pos \notin DOMAIN chunks
    /\ \E c \in DOMAIN chunks : ~AllDefault(chunks, c)

\* C17: is_empty() is true exactly when no cell of the grid holds a
\* non-default value, whatever chunks exist; is_chunk_empty(c) is true for a
\* chunk that does not exist.
C17_IsEmpty ==
    /\ is_empty(chunks) = (\A p \in FrameCoords : Grid_get_cell(chunks, p) = 0)
    /\ \A c \in (0 - 2)..1 : c \notin DOMAIN chunks => is_chunk_empty(chunks, c)

\* A non-default cell has just been written back to the default: its chunk
\* exists with default cells only, and the grid is empty.
C17_Witness ==
    /\ lastOp.op = "Grid.set_cell"
    /\ lastOp.val = 0
    /\ lastOp.ret # 0
    /\ ChunkCoordsOf(lastOp.pos) \in DOMAIN chunks
    /\ is_empty(chunks)

(***************************************************************************)
(* The rule interpreter's value and its coercion to a vector.              *)
(***************************************************************************)
LangInts == (0 - 1)..MaxLangInt
Vectors == UNION {[1..n -> LangInts] : n \in 1..MaxVecLen}
ConstValues ==
    {Void, String_("s")}
        \cup {Int_(i) : i \in LangInts}
        \cup {CellState(i) : i \in 0..1}
        \cup {Vector(v) : v \in Vectors}

\* The interpreter evaluates an expression to the value v.
LangSet(v) ==
    /\ value' = v
    /\ lastOp' = [op |-> "set", self |-> value, len |-> 0, ret |-> Ok(v)]
    /\ UNCHANGED <<chunks, autos, sims, viewport, texture, display, projected, nodeVars, threadVars>>

\* A call of coerce_to_vector(len) on the value (which the call consumes);
\* the interpreter goes on with the vector it got.
CoerceToVector(len) ==
    LET r == coerce_to_vector(value, len)
    IN  /\ value' = IF r.ok THEN Vector(r.v) ELSE value
        /\ lastOp' = [op |-> "coerce_to_vector", self |-> value, len |-> len, ret |-> r]
        /\ UNCHANGED <<chunks, autos, sims, viewport, texture, display, projected, nodeVars, threadVars>>

LangNext ==
    \/ \E v \in ConstValues : LangSet(v)
    \/ \E len \in 1..MaxVecLen : CoerceToVector(len)

\* The interpreter's value.
SpecLang == Init /\ [][LangNext]_vars

\* C18: coerce_to_vector(len) on an Int or a Vector returns a vector of
\* exactly len components: len copies of the Int; the first min(|v|, len)
\* components of the Vector as they were and 0 in the others.  Coercing the
\* result to the same len again returns it as it is.  Every other variant
\* yields an internal type error.
C18_CoerceToVector ==
    lastOp.op = "coerce_to_vector" =>
        LET self == lastOp.self
            len  == lastOp.len
            r    == lastOp.ret
        IN  IF self.tag \in {"Int", "Vector"}
            THEN /\ r.ok
                 /\ Len(r.v) = len
                 /\ \A k \in 1..len :
                       r.v[k] = IF self.tag = "Int" THEN self.i
                                ELSE IF k <= Len(self.v) THEN self.v[k]
                                ELSE 0
                 /\ value = Vector(r.v)
                 /\ coerce_to_vector(value, len) = Ok(r.v)
            ELSE /\ ~r.ok
                 /\ r.v = "InternalError"

\* A vector of equal non-zero components, as the coercion of an Int gives
\* it, has just been coerced to a shorter vector.
C18_Witness ==
    /\ lastOp.op = "coerce_to_vector"
    /\ lastOp.self.tag = "Vector"
    /\ Len(lastOp.self.v) > lastOp.len
    /\ lastOp.self.v[Len(lastOp.self.v)] # 0
    /\ lastOp.ret.ok
    /\ \A k \in 1..Len(lastOp.self.v) : lastOp.self.v[k] = lastOp.self.v[1]

(***************************************************************************)
(* The viewport.                                                           *)
(***************************************************************************)
\* The floats of magnitude up to MaxDelta.
Deltas == {n \in (0 - MaxDelta)..MaxDelta : RoundF(n) = n}
\* Zoom levels, in cells per pixel.
ZoomLevels == {2}

\* Whether the viewport is one the model follows.
InView(v) == \A i \in 1..2 : v.pos[i] \in (0 - MaxView)..MaxView

\* A call of Viewport2D::scroll_cells.
ScrollCells(dx, dy) ==
    /\ InView(scroll_cells(viewport, dx, dy))
    /\ viewport' = scroll_cells(viewport, dx, dy)
    /\ lastOp' = [op |-> "scroll_cells", dx |-> dx, dy |-> dy]
    /\ UNCHANGED <<chunks, autos, sims, value, texture, display, projected, nodeVars, threadVars>>

\* A call of Viewport2D::scroll_pixels.
ScrollPixels(dx, dy, cells_per_pixel) ==
    /\ InView(scroll_pixels(viewport, dx, dy, cells_per_pixel))
    /\ viewport' = scroll_pixels(viewport, dx, dy, cells_per_pixel)
    /\ lastOp' = [op |-> "scroll_pixels", dx |-> RoundF(dx * cells_per_pixel),
                  dy |-> RoundF(dy * cells_per_pixel)]
    /\ UNCHANGED <<chunks, autos, sims, value, texture, display, projected, nodeVars, threadVars>>

\* A call of Viewport2D::snap_pos.
SnapPos ==
    /\ InView(snap_pos(viewport))
    /\ viewport' = snap_pos(viewport)
    /\ lastOp' = [op |-> "snap_pos", dx |-> 0, dy |-> 0]
    /\ UNCHANGED <<chunks, autos, sims, value, texture, display, projected, nodeVars, threadVars>>

ViewNext ==
    \/ \E dx, dy \in Deltas : ScrollCells(dx, dy)
    \/ \E dx, dy \in Deltas, z \in ZoomLevels : ScrollPixels(dx, dy, z)
    \/ SnapPos

\* The viewport.
SpecView == Init /\ [][ViewNext]_vars

\* C19: x_offset and y_offset lie in [0, 1) after every call; scroll_cells
\* and scroll_pixels keep the total position, pos + offset growing by
\* exactly (dx, dy); snap_pos sets the offsets to 0 and adds 1 to pos on the
\* axes whose offset was at least 0.5.
C19_ViewportOffsets ==
    [][/\ 0 <= viewport'.x_offset /\ viewport'.x_offset < One
       /\ 0 <= viewport'.y_offset /\ viewport'.y_offset < One
       /\ lastOp'.op \in {"scroll_cells", "scroll_pixels"} =>
            /\ viewport'.pos[1] * One + viewport'.x_offset =
                  viewport.pos[1] * One + viewport.x_offset + lastOp'.dx
            /\ viewport'.pos[2] * One + viewport'.y_offset =
                  viewport.pos[2] * One + viewport.y_offset + lastOp'.dy
       /\ lastOp'.op = "snap_pos" =>
            /\ viewport'.x_offset = 0
            /\ viewport'.y_offset = 0
            /\ viewport'.pos[1] = viewport.pos[1] + (IF viewport.x_offset >= Half THEN 1 ELSE 0)
            /\ viewport'.pos[2] = viewport.pos[2] + (IF viewport.y_offset >= Half THEN 1 ELSE 0)]_vars

\* ---------------------------------------------------------------------------
\* The texture cache
\* ---------------------------------------------------------------------------

Sizes == 1..MaxSize

SetMinSize(w, h) ==
    /\ display < MaxTextures
    /\ LET r == set_min_size(texture, display, w, h)
       IN  /\ texture' = r.t
           /\ display' = r.n
           /\ lastOp' = [op |-> "set_min_size", w |-> w, h |-> h, ret |-> r.ret]
    /\ UNCHANGED <<chunks, autos, sims, value, viewport, projected, nodeVars, threadVars>>

SetSize(w, h) ==
    /\ display < MaxTextures
    /\ LET r == set_size(texture, display, w, h)
       IN  /\ texture' = r.t
           /\ display' = r.n
           /\ lastOp' = [op |-> "set_size", w |-> w, h |-> h]
    /\ UNCHANGED <<chunks, autos, sims, value, viewport, projected, nodeVars, threadVars>>

Reset ==
    /\ texture' = reset(texture)
    /\ lastOp' = [op |-> "reset"]
    /\ UNCHANGED <<chunks, autos, sims, value, viewport, display, projected, nodeVars, threadVars>>

AtSize(w, h) ==
    /\ display < MaxTextures
    /\ LET r == at_size(texture, display, w, h)
       IN  /\ texture' = r.t
           /\ display' = r.n
           /\ lastOp' = [op |-> "at_size", w |-> w, h |-> h, outcome |-> r.outcome]
    /\ UNCHANGED <<chunks, autos, sims, value, viewport, projected, nodeVars, threadVars>>

Unwrap ==
    /\ lastOp' = [op |-> "unwrap", outcome |-> CachedSrgbTexture2d_unwrap(texture)]
    /\ UNCHANGED <<chunks, autos, sims, value, viewport, texture, display,
                   projected, nodeVars, threadVars>>

MakeFbo ==
    /\ lastOp' = [op |-> "make_fbo", outcome |-> make_fbo(texture)]
    /\ UNCHANGED <<chunks, autos, sims, value, viewport, texture, display,
                   projected, nodeVars, threadVars>>

TextureNext ==
    \/ \E w \in Sizes, h \in Sizes : SetMinSize(w, h)
    \/ \E w \in Sizes, h \in Sizes : SetSize(w, h)
    \/ \E w \in Sizes, h \in Sizes : AtSize(w, h)
    \/ Reset
    \/ Unwrap
    \/ MakeFbo

SpecTexture == Init /\ [][TextureNext]_vars

ProjStates == 0..state_count

\* The parameters the environment offers: up to two axes, up to two slice
\* coordinates.
SeqsUpTo2(S) == {<<>>} \cup {<<a>> : a \in S} \cup {<<a, b>> : a \in S, b \in S}
ParamsSet == [axes : SeqsUpTo2(1..(StorageDim + 1)), slice : SeqsUpTo2(ProjCoords)]

ProjSetCell(pos, state) ==
    /\ projected' = Projected_set_cell(projected, pos, state)
    /\ lastOp' = [op |-> "set_cell", pos |-> pos, state |-> state,
                  outcome |-> "returned"]
    /\ UNCHANGED <<chunks, autos, sims, value, viewport, texture, display, nodeVars, threadVars>>

SetProjectionParams(params) ==
    /\ LET r == set_projection_params(projected, params)
       IN  /\ projected' = r.auto
           /\ lastOp' = [op |-> "set_projection_params", params |-> params,
                         ret |-> r.ret]
    /\ UNCHANGED <<chunks, autos, sims, value, viewport, texture, display, nodeVars, threadVars>>

GetProjectionParams ==
    /\ lastOp' = [op |-> "get_projection_params",
                  ret |-> get_projection_params(projected)]
    /\ UNCHANGED <<chunks, autos, sims, value, viewport, texture, display, projected, nodeVars, threadVars>>

ProjSetGenerationCount(generations) ==
    /\ projected' = set_generation_count(projected, generations)
    /\ lastOp' = [op |-> "set_generation_count", generations |-> generations]
    /\ UNCHANGED <<chunks, autos, sims, value, viewport, texture, display, nodeVars, threadVars>>

ProjectedDefault(ndim) ==
    /\ lastOp' = [op |-> "default", ndim |-> ndim] @@ ProjectedAutomaton_default(ndim)
    /\ UNCHANGED <<chunks, autos, sims, value, viewport, texture, display, projected, nodeVars, threadVars>>

ProjNext ==
    \/ \E pos \in ViewPositions, state \in ProjStates : ProjSetCell(pos, state)
    \/ \E params \in ParamsSet : SetProjectionParams(params)
    \/ GetProjectionParams
    \/ \E generations \in 0..1 : ProjSetGenerationCount(generations)
    \/ \E ndim \in 0..(MaxDim + 1) : ProjectedDefault(ndim)

SpecProj == Init /\ [][ProjNext]_vars

\* The parameters describe a projection of the storage onto the view: they
\* choose ViewDim different storage axes and give one slice coordinate for
\* each of the others.
ValidShape(params) ==
    /\ Len(params.axes) = ViewDim
    /\ {params.axes[i] : i \in DOMAIN params.axes} \subseteq 1..StorageDim
    /\ Cardinality({params.axes[i] : i \in DOMAIN params.axes}) = ViewDim
    /\ Len(params.slice) = StorageDim - ViewDim

\* C11: set_projection_params returns Ok exactly for parameters that describe
\* a valid projection; otherwise it returns ProjectionShapeMismatch and the
\* projection installed before is still installed; after Ok the parameters
\* get_projection_params returns are the ones just set.
C11_SetProjectionParams ==
    [][lastOp'.op = "set_projection_params" =>
          /\ lastOp'.ret.ok <=> ValidShape(lastOp'.params)
          /\ ~lastOp'.ret.ok =>
                /\ lastOp'.ret.v = "ProjectionShapeMismatch"
                /\ projected' = projected
          /\ lastOp'.ret.ok =>
                /\ get_projection_params(projected') = lastOp'.params
                /\ projected'.tree = projected.tree
                /\ projected'.generations = projected.generations]_vars

\* Parameters that choose both storage axes were refused after the view of
\* the second axis at slice coordinate 1 had been accepted.
C11_Witness ==
    /\ lastOp.op = "set_projection_params"
    /\ ~lastOp.ret.ok
    /\ lastOp.params = [axes |-> <<1, 2>>, slice |-> <<>>]
    /\ get_projection_params(projected) = [axes |-> <<2>>, slice |-> <<1>>]

\* C12: set_cell(p, s) through the projection writes s to the storage cell
\* whose coordinates are those of p on the axes of the view and the slice
\* coordinates on the other axes; every other cell, the projection
\* parameters, the rule and the generation counter stay as they were.
C12_ProjectedWrite ==
    [][lastOp'.op = "set_cell" =>
          LET params == get_projection_params(projected)
              target == CHOOSE q \in StoragePositions :
                           /\ \A i \in 1..ViewDim : q[params.axes[i]] = lastOp'.pos[i]
                           /\ \A k \in 1..Len(params.slice) :
                                 q[PinnedAxes(params.axes)[k]] = params.slice[k]
          IN  /\ projected'.tree[target] = lastOp'.state
              /\ \A q \in StoragePositions \ {target} :
                    projected'.tree[q] = projected.tree[q]
              /\ get_projection_params(projected') = params
              /\ projected'.projection = projected.projection
              /\ projected'.sim = projected.sim
              /\ sims' = sims
              /\ projected'.generations = projected.generations]_vars

\* A write through the view of the second axis at slice coordinate 1 reached
\* the cell (1, 1) while the generation counter was 1.
C12_Witness ==
    /\ lastOp.op = "set_cell"
    /\ lastOp.pos = <<1>>
    /\ lastOp.state = 1
    /\ get_projection_params(projected) = [axes |-> <<2>>, slice |-> <<1>>]
    /\ projected.tree[<<1, 1>>] = 1
    /\ projected.tree[<<1, 0>>] = 0
    /\ projected.generations = 1

\* C13: a set_cell with a state that is not below the rule's state_count is
\* refused with StateOutOfRange, and every cell of the tree holds a state
\* below state_count.
C13_StateOutOfRange ==
    /\ (lastOp.op = "set_cell" /\ lastOp.state >= state_count)
          => lastOp.outcome = "StateOutOfRange"
    /\ \A q \in StoragePositions : projected.tree[q] < state_count

\* C14: the default ProjectedAutomaton of a dimension in 1..6 is the variant
\* of that storage dimension; for any other dimension the construction
\* returns the error UnsupportedDimension without panicking.
C14_UnsupportedDimension ==
    lastOp.op = "default" =>
        IF lastOp.ndim \in 1..6
        THEN /\ lastOp.outcome = "returned"
             /\ lastOp.variant = lastOp.ndim
             /\ lastOp.storage = lastOp.ndim
        ELSE lastOp.outcome = "UnsupportedDimension"

\* ---------------------------------------------------------------------------
\* The node arena
\* ---------------------------------------------------------------------------

\* The positions the environment writes in the two trees.
NodePositions == {0, 1}

\* The (layer, payload) a thread may ask for: a leaf of any state, or a branch
\* of layer 1 over two leaves the arena holds.
InternKeys ==
    {[layer |-> 0, payload |-> <<s>>] : s \in States}
    \cup {[layer |-> 1, payload |-> <<a.id, b.id>>] :
            a \in {n \in arena.nodes : n.layer = 0},
            b \in {n \in arena.nodes : n.layer = 0}}

\* set_cell on one of the trees: the path to the leaf is rewritten and every
\* node on it interned again.
NodeSetCell(T, pos, state) ==
    /\ arena.next <= MaxNodes
    /\ \A t \in Threads : interning[t].pc = "idle"
    /\ LET r == WithRoot(arena, Tree_set_cell(roots[T].tree, pos, state))
       IN  /\ arena' = r.arena
           /\ roots' = [roots EXCEPT ![T] = r.tree]
    /\ lastOp' = [op |-> "set_cell", tree |-> T, pos |-> pos, state |-> state]
    /\ UNCHANGED <<chunks, autos, sims, value, viewport, texture, display,
                   projected, interning, threadVars>>

\* shrink on one of the trees.
NodeShrink(T) ==
    /\ \A t \in Threads : interning[t].pc = "idle"
    /\ LET r == WithRoot(arena, Tree_shrink(roots[T].tree))
       IN  /\ arena' = r.arena
           /\ roots' = [roots EXCEPT ![T] = r.tree]
    /\ lastOp' = [op |-> "shrink", tree |-> T]
    /\ UNCHANGED <<chunks, autos, sims, value, viewport, texture, display,
                   projected, interning, threadVars>>

\* A thread begins an intern call: it looks the node up, and returns it when
\* it is there (the fast path); otherwise it constructs the node.
InternLookup(t, key) ==
    /\ arena.next <= MaxNodes
    /\ interning[t].pc = "idle"
    /\ interning' = [interning EXCEPT ![t] =
          IF Lookup(arena, key.layer, key.payload) # {}
          THEN [pc |-> "done", layer |-> key.layer, payload |-> key.payload,
                ret |-> CHOOSE i \in Lookup(arena, key.layer, key.payload) : TRUE]
          ELSE [pc |-> "construct", layer |-> key.layer, payload |-> key.payload,
                ret |-> 0]]
    /\ UNCHANGED <<chunks, autos, sims, lastOp, value, viewport, texture, display,
                   projected, arena, roots, threadVars>>

\* The thread publishes the node it constructed, or returns the one another
\* thread published in the meantime.
InternPublish(t) ==
    /\ interning[t].pc = "construct"
    /\ LET r == publish(arena, interning[t].layer, interning[t].payload)
       IN  /\ arena' = r.arena
           /\ interning' = [interning EXCEPT ![t].pc = "done", ![t].ret = r.id]
    /\ UNCHANGED <<chunks, autos, sims, lastOp, value, viewport, texture, display,
                   projected, roots, threadVars>>

\* The intern call returns.
InternReturn(t) ==
    /\ interning[t].pc = "done"
    /\ interning' = [interning EXCEPT ![t] = IdleThread]
    /\ UNCHANGED <<chunks, autos, sims, lastOp, value, viewport, texture, display,
                   projected, arena, roots, threadVars>>

NodeNext ==
    \/ \E T \in TreeIds, pos \in NodePositions, state \in States :
          NodeSetCell(T, pos, state)
    \/ \E T \in TreeIds : NodeShrink(T)
    \/ \E t \in Threads : \E key \in InternKeys : InternLookup(t, key)
    \/ \E t \in Threads : InternPublish(t)
    \/ \E t \in Threads : InternReturn(t)

SpecNodes == Init /\ [][NodeNext]_vars

\* For each (layer, payload) the arena holds at most one node.
OneNodePerKey ==
    \A n, m \in arena.nodes :
        (n.layer = m.layer /\ n.payload = m.payload) => n.id = m.id

\* Two trees of the same cell content have the same root id.
EqualContentEqualRoots ==
    \A T1, T2 \in TreeIds :
        TreeContent(roots[T1].tree) = TreeContent(roots[T2].tree)
            => roots[T1].root = roots[T2].root

\* Two intern calls for the same (layer, payload) that have both reached
\* their result have the same id, and the arena holds that node once.
ConcurrentInternSameId ==
    \A t, u \in Threads :
        (/\ interning[t].pc = "done" /\ interning[u].pc = "done"
         /\ interning[t].layer = interning[u].layer
         /\ interning[t].payload = interning[u].payload)
            => /\ interning[t].ret = interning[u].ret
               /\ Lookup(arena, interning[t].layer, interning[t].payload)
                     = {interning[t].ret}

\* C16: nodes are canonical: at most one node exists for each (layer,
\* payload); trees of identical cell content have equal root ids after any
\* sequence of edits; concurrent intern calls for the same (layer, children)
\* return the same id and create no duplicate entry.
C16_CanonicalNodes ==
    /\ OneNodePerKey
    /\ EqualContentEqualRoots
    /\ ConcurrentInternSameId

\* C21: a texture is cached exactly when current_size is Some, and
\* current_size is the size the cached texture was created with; after
\* set_size, set_min_size and at_size a texture is cached, so unwrap and
\* make_fbo return; they panic only when no texture is cached, which is the
\* case only in the default state: a texture once cached goes away by reset
\* alone.
C21_CachedIffSized ==
    [][/\ texture'.cached = None <=> texture'.current_size = None
       /\ texture'.cached # None =>
             texture'.current_size =
                Some(<<unwrap(texture'.cached).w, unwrap(texture'.cached).h>>)
       /\ lastOp'.op \in {"set_size", "set_min_size", "at_size"} =>
             /\ texture'.cached # None
             /\ CachedSrgbTexture2d_unwrap(texture') = "returned"
             /\ make_fbo(texture') = "returned"
       /\ lastOp'.op = "at_size" => lastOp'.outcome = "returned"
       /\ lastOp'.op \in {"unwrap", "make_fbo"} =>
             /\ texture' = texture
             /\ lastOp'.outcome = "panic" =>
                   (texture = CachedSrgbTexture2d_default
                    /\ lastOp.op \in {NoOp.op, "reset", "unwrap", "make_fbo"})
             /\ lastOp'.outcome = "returned" => texture.cached # None
       /\ (texture.cached # None /\ texture'.cached = None) =>
             lastOp'.op = "reset"]_vars

\* unwrap panicked directly after a reset of a cache that had held textures.
C21_Witness ==
    /\ lastOp.op = "unwrap"
    /\ lastOp.outcome = "panic"
    /\ texture = CachedSrgbTexture2d_default
    /\ display = 2

\* ---------------------------------------------------------------------------
\* Clones stepped from different threads
\* ---------------------------------------------------------------------------

\* The thread of automaton a calls step(step_size).
StepCall(a, n) ==
    /\ autos[a].live
    /\ stepping[a].pc = "idle"
    /\ LET r == NdAutomaton_step(autos[a], sims[autos[a].sim], n)
       IN  /\ r.auto.generations \in 0..MaxGen
           /\ LivePositions(r.auto.tree) \subseteq (0 - MaxExtent)..MaxExtent
    /\ stepping' = [stepping EXCEPT ![a] = [pc |-> "lock", step_size |-> n]]
    /\ UNCHANGED <<chunks, autos, sims, lastOp, value, viewport, texture, display,
                   projected, nodeVars, held>>

\* self.sim.lock().unwrap(): the thread has the mutex once nobody holds it;
\* on a poisoned mutex unwrap panics and the guard inside the error is
\* dropped.
StepLock(a) ==
    /\ stepping[a].pc = "lock"
    /\ can_lock(held[autos[a].sim])
    /\ IF sims[autos[a].sim].poisoned
       THEN /\ stepping' = [stepping EXCEPT ![a] = NotStepping]
            /\ lastOp' = Op("step", a, 0, stepping[a].step_size, FALSE, 0,
                            "none", "panic")
            /\ UNCHANGED held
       ELSE /\ stepping' = [stepping EXCEPT ![a].pc = "inside"]
            /\ held' = [held EXCEPT ![autos[a].sim] = a]
            /\ UNCHANGED lastOp
    /\ UNCHANGED <<chunks, autos, sims, value, viewport, texture, display,
                   projected, nodeVars>>

\* Simulation::step on the tree under the guard; the guard is dropped at the
\* end of the statement and step_size is added to the generation count.
StepRun(a) ==
    /\ stepping[a].pc = "inside"
    /\ LET r == NdAutomaton_step(autos[a], sims[autos[a].sim], stepping[a].step_size)
           as2 == [autos EXCEPT ![a] = r.auto]
       IN  /\ autos' = as2
           /\ sims' = DropUnreferenced(as2, [sims EXCEPT ![autos[a].sim] = r.mutex])
           /\ lastOp' = Op("step", a, 0, stepping[a].step_size, FALSE, 0,
                           r.engine, r.outcome)
    /\ held' = [held EXCEPT ![autos[a].sim] = IF @ = a THEN 0 ELSE @]
    /\ stepping' = [stepping EXCEPT ![a] = NotStepping]
    /\ UNCHANGED <<chunks, value, viewport, texture, display, projected, nodeVars>>

\* What the owner of automaton a does between two steps of it.
Between(a) == stepping[a].pc = "idle"

\* The rule the automaton is given before it is cloned, and the step sizes
\* of the two threads.
ThreadRules == {"Parity"}
ThreadSteps == {1, 2}

ThreadsNext ==
    \/ Between(1) /\ Between(2) /\ Clone(1, 2)
    \/ \E r \in ThreadRules : Between(1) /\ SetSim(1, r)
    \/ \E v \in States : Between(1) /\ SetCell(1, 0, v)
    \/ \E a \in AutoIds, n \in ThreadSteps : StepCall(a, n)
    \/ \E a \in AutoIds : StepLock(a)
    \/ \E a \in AutoIds : StepRun(a)

SpecThreads == Init /\ [][ThreadsNext]_vars

\* A thread that may take the mutex takes it.  Nothing is asked of
\* Simulation::step: whether a step that is inside comes to its end is the
\* premise of the claim.
SpecThreadsFair ==
    /\ SpecThreads
    /\ \A a \in AutoIds : WF_vars(StepLock(a))

\* What step(n) gives the automaton when nobody else uses its Simulation: a
\* Simulation of the same rule that has cached nothing.
SteppedAlone(pa, rule, n) ==
    NdAutomaton_step(pa, Mutex_new(Simulation_from(rule)), n).auto

\* Two automata that refer to one Simulation are not both inside its step.
OneInside ==
    \A a, b \in AutoIds :
        (/\ a # b
         /\ stepping[a].pc = "inside" /\ stepping[b].pc = "inside")
            => autos[a].sim # autos[b].sim

\* A step of the thread of one automaton leaves the tree and the count of the
\* other as they are, and gives its own automaton what a step alone gives.
StepsApart ==
    \A a \in AutoIds :
        stepping'[a] # stepping[a] =>
            /\ \A b \in AutoIds \ {a} :
                  /\ autos'[b].tree = autos[b].tree
                  /\ autos'[b].generations = autos[b].generations
            /\ (stepping[a].pc = "inside") =>
                  LET alone == SteppedAlone(autos[a], sims[autos[a].sim].sim.rule,
                                            stepping[a].step_size)
                  IN  /\ lastOp'.outcome = "returned"
                      /\ autos'[a].tree = alone.tree
                      /\ autos'[a].generations = alone.generations
                      /\ held'[autos[a].sim] = 0
            /\ (stepping[a].pc # "inside") =>
                  /\ autos'[a].tree = autos[a].tree
                  /\ autos'[a].generations = autos[a].generations

\* A thread that waits for the mutex does not wait for ever when the other
\* thread is, from some time on, no longer inside step: it leaves lock().
NoBlock ==
    \A a, b \in AutoIds :
        a # b =>
            (<>[](stepping[b].pc # "inside")
                => (stepping[a].pc = "lock" ~> stepping[a].pc # "lock"))

\* C22: clones share one Simulation behind a mutex: when two clones are
\* stepped from different threads at most one of them is inside
\* Simulation::step at a time; a step gives its clone the tree and the
\* generation count it would get stepped alone and changes neither in the
\* other clone; a step that waits for the mutex goes on once the other step
\* has completed.
C22_ClonesStepped ==
    /\ []OneInside
    /\ [][StepsApart]_vars
    /\ NoBlock

\* The clone waits for the mutex while the first automaton, whose tree holds
\* a cell, is inside the step of the Simulation they share.
C22_Witness ==
    /\ autos[2].live
    /\ autos[1].sim = autos[2].sim
    /\ stepping[1].pc = "inside"
    /\ stepping[2].pc = "lock"
    /\ held[autos[1].sim] = 1
    /\ LivePositions(autos[1].tree) # {}
    /\ sims[autos[1].sim].sim.rule = "Parity"

=============================================================================
